---- MODULE Spec2Model ----
(***************************************************************************)
(* Model of the assessment scoring helpers of coach-platform               *)
(* (apps/web/src/lib/utils.ts) and of the assessment wizard that uses      *)
(* them (apps/web/src/app/clients/[id]/page.tsx, AssessmentPage).          *)
(*                                                                         *)
(* A JavaScript object is modelled as the sequence of its <<key, value>>   *)
(* pairs in insertion order, so that Object.values is the sequence of the  *)
(* second components, whatever the keys are.                               *)
(* The outcome of a call is a record [threw, value]: threw is "none" when  *)
(* the call returned value, and the name of the error otherwise.           *)
(***************************************************************************)
EXTENDS Integers, Sequences, FiniteSets, TLC

VARIABLES
    fmsScores,   \* AssessmentPage: the fmsScores state (seven sub-scores)
    scores,      \* argument object of a calculateFMSTotal call
    total,       \* outcome of the calculateFMSTotal call
    risk,        \* outcome of the getFMSRiskLevel call
    weightKg,    \* first argument of a calculateBMI call
    heightCm,    \* second argument of a calculateBMI call
    bmi,         \* outcome of the calculateBMI call
    pc           \* position of the caller of the scoring functions

\* AssessmentPage (the wizard), besides fmsScores
VARIABLES
    currentStep,    \* index into STEPS
    loading,        \* the loading state
    error,          \* the error state (a string)
    bodyMetrics,    \* the bodyMetrics state: height_cm and weight_kg
    submit,         \* the running handleSubmit call: the await it is
                    \* suspended at and the state values its closure holds
    lastPost,       \* body of the POST .../assessments awaiting its response
    location,       \* the route shown: "assessment" until router.push
    view,           \* what the current step displays of the derived values
    editsInFlight   \* number of field changes made since Save was clicked

\* the database: the tables as sets of rows, the number of uuids generated,
\* and the result of the last statement or API request
VARIABLES clients, assessments, plans, uuids, lastRead

\* the tables exercises and workout_days
VARIABLES exercises, workoutDays

\* SettingsPage: its state (saving is its loading state), the position of
\* fetchProfile, the user that getUser returns, and the updateUser request
\* awaiting its result
VARIABLES
    profile, specializationInput, saving, saved, profileFetch, authUser,
    lastUpdate

wizardVars ==
    <<currentStep, loading, error, bodyMetrics, submit, lastPost, location,
      view, editsInFlight>>

dbVars == <<clients, assessments, plans, uuids, lastRead, exercises,
           workoutDays>>

callVars == <<scores, total, risk, weightKg, heightCm, bmi>>

\* The pages that load their data on mount (ClientsPage, PlansPage,
\* ExercisesPage, ClientDetailPage): which one is mounted, its state, the
\* running calls of its loader, and the number of client id changes
VARIABLES mounted, pageState, loaderCalls, idChanges

\* Emailing a plan (PlansPage, PlanDetailPage): the running send calls, the
\* last alert shown, and the sendingEmail flag of the detail page
VARIABLES sendCalls, alertShown, sendingEmail

sendVars == <<sendCalls, alertShown, sendingEmail>>

pageVars == <<mounted, pageState, loaderCalls, idChanges, sendVars>>

\* A free-text list editor (the tags of NewExercisePage, or an ArrayInput
\* of the assessment wizard): its text input and its list
VARIABLES listInput, listItems

listVars == <<listInput, listItems>>

settingsVars ==
    <<profile, specializationInput, saving, saved, profileFetch, authUser,
      lastUpdate, listVars>>

vars ==
    <<fmsScores, scores, total, risk, weightKg, heightCm, bmi, pc,
      wizardVars, dbVars, settingsVars, pageVars>>

(***************************************************************************)
(* Bounds of the inputs                                                    *)
(***************************************************************************)
\* sub-score arguments range over -MaxNegativeScore..MaxScoreInput
MaxNegativeScore == 1
MaxScoreInput == 4
\* weight and height arguments range over -MaxNegativeMeasure..Max...Input
MaxNegativeMeasure == 2
MaxWeightInput == 300
MaxHeightInput == 250
\* the score buttons of the first MaxEditedMovements movements are clicked
MaxEditedMovements == 1
\* numbers typed into the height and weight inputs range over 0..Max...
MaxTypedMeasure == 0
\* field changes made while a submission is pending
MaxEditsInFlight == 1
\* rows inserted into the tables over a run
MaxUuids == 3
\* characters typed into the specialization input
MaxInputLen == 1
\* changes of the client id of a mounted ClientDetailPage
MaxIdChanges == 1

\* send-email calls running at the same time
MaxSendsInFlight == 2

\* entries of a free-text list
MaxListLen == 3

(***************************************************************************)
(* JavaScript objects and call outcomes                                    *)
(***************************************************************************)
Returned(v) == [threw |-> "none", value |-> v]

NotCalled == [threw |-> "none", value |-> "pending"]

ObjectValues(obj) == [i \in 1..Len(obj) |-> obj[i][2]]

ObjectKeys(obj) == {obj[i][1] : i \in 1..Len(obj)}

HasKey(obj, key) == key \in ObjectKeys(obj)

\* { ...obj, [key]: value }: an existing key keeps its place, a new key is
\* appended.
SpreadSet(obj, key, value) ==
    IF HasKey(obj, key)
    THEN [i \in 1..Len(obj) |->
             IF obj[i][1] = key THEN <<key, value>> ELSE obj[i]]
    ELSE Append(obj, <<key, value>>)

\* The object without its i-th property.
WithoutProperty(obj, i) ==
    [j \in 1..(Len(obj) - 1) |-> IF j < i THEN obj[j] ELSE obj[j + 1]]

(***************************************************************************)
(* utils.ts                                                                *)
(***************************************************************************)
FMSKeys ==
    << "deep_squat", "hurdle_step", "inline_lunge", "shoulder_mobility",
       "active_straight_leg_raise", "trunk_stability_pushup",
       "rotary_stability" >>

MinScore == 0
MaxScore == 3

\* Array.prototype.reduce((sum, score) => sum + score, sum0)
RECURSIVE reduce(_, _)
reduce(values, sum) ==
    IF values = << >> THEN sum
    ELSE reduce(Tail(values), sum + Head(values))

\* calculateFMSTotal leaving out the last property
calculateFMSTotal_DropsLast(s) ==
    reduce(SubSeq(ObjectValues(s), 1, Len(s) - 1), 0)

\* calculateFMSTotal folding from 1 instead of 0
calculateFMSTotal_StartsAtOne(s) == reduce(ObjectValues(s), 1)

calculateFMSTotal(s) == reduce(ObjectValues(s), 0)

\* getFMSRiskLevel with the wizard's cutoff of 14 for the low band
getFMSRiskLevel_BandsSwapped(totalScore) ==
    IF totalScore >= 15
    THEN [level |-> "moderate", label |-> "Moderate Risk",
          color |-> "text-yellow-600"]
    ELSE IF totalScore >= 12
    THEN [level |-> "low", label |-> "Low Risk", color |-> "text-green-600"]
    ELSE [level |-> "high", label |-> "High Risk", color |-> "text-red-600"]

getFMSRiskLevel_LowFrom14(totalScore) ==
    IF totalScore >= 14
    THEN [level |-> "low", label |-> "Low Risk", color |-> "text-green-600"]
    ELSE IF totalScore >= 12
    THEN [level |-> "moderate", label |-> "Moderate Risk",
          color |-> "text-yellow-600"]
    ELSE [level |-> "high", label |-> "High Risk", color |-> "text-red-600"]

getFMSRiskLevel(totalScore) ==
    IF totalScore >= 15
    THEN [level |-> "low", label |-> "Low Risk", color |-> "text-green-600"]
    ELSE IF totalScore >= 12
    THEN [level |-> "moderate", label |-> "Moderate Risk",
          color |-> "text-yellow-600"]
    ELSE [level |-> "high", label |-> "High Risk", color |-> "text-red-600"]

(***************************************************************************)
(* IEEE 754 binary64 arithmetic, as the JavaScript Number type has it.     *)
(* A Number is a record [kind, neg, hi, lo, e]: kind is "nan", "inf",      *)
(* "zero" or "finite"; a finite Number is (+/-) (hi * 2^28 + lo) * 2^e     *)
(* with a 53-bit significand, 2^52 <= hi * 2^28 + lo < 2^53.               *)
(* Results are rounded to nearest, ties to even.  Exponents stay far from  *)
(* the overflow and underflow thresholds for the operands used here.       *)
(***************************************************************************)
Digit == 2^28
Limb == 2^14

NaN == [kind |-> "nan", neg |-> FALSE, hi |-> 0, lo |-> 0, e |-> 0]

Infinite(neg) == [kind |-> "inf", neg |-> neg, hi |-> 0, lo |-> 0, e |-> 0]

Zero(neg) == [kind |-> "zero", neg |-> neg, hi |-> 0, lo |-> 0, e |-> 0]

Finite(neg, m, e) ==
    [kind |-> "finite", neg |-> neg, hi |-> m.hi, lo |-> m.lo, e |-> e]

Significand(x) == [hi |-> x.hi, lo |-> x.lo]

Abs(n) == IF n < 0 THEN -n ELSE n

\* number of bits of a positive integer
RECURSIVE BitLength(_)
BitLength(n) == IF n = 0 THEN 0 ELSE 1 + BitLength(n \div 2)

\* the Number of an integer literal or integer argument, |n| < 2^28
ToNumber(n) ==
    IF n = 0 THEN Zero(FALSE)
    ELSE LET shift == 53 - BitLength(Abs(n))
             m == IF shift >= 28
                  THEN [hi |-> Abs(n) * 2^(shift - 28), lo |-> 0]
                  ELSE [hi |-> Abs(n) \div 2^(28 - shift),
                        lo |-> (Abs(n) % 2^(28 - shift)) * 2^shift]
         IN Finite(n < 0, m, -shift)

\* two-digit arithmetic on significands and remainders (below 2^54)
WideLess(a, b) == a.hi < b.hi \/ (a.hi = b.hi /\ a.lo < b.lo)

WideSub(a, b) ==
    IF a.lo >= b.lo THEN [hi |-> a.hi - b.hi, lo |-> a.lo - b.lo]
    ELSE [hi |-> a.hi - b.hi - 1, lo |-> a.lo + Digit - b.lo]

WideTwicePlus(a, bit) ==
    [hi |-> 2 * a.hi + (2 * a.lo + bit) \div Digit,
     lo |-> (2 * a.lo + bit) % Digit]

\* a significand plus one unit in the last place: [m, e] or [2^52, e + 1]
RoundedUp(neg, m, e) ==
    IF m.lo + 1 < Digit THEN Finite(neg, [hi |-> m.hi, lo |-> m.lo + 1], e)
    ELSE IF m.hi + 1 < 2^25 THEN Finite(neg, [hi |-> m.hi + 1, lo |-> 0], e)
    ELSE Finite(neg, [hi |-> 2^24, lo |-> 0], e + 1)

\* m * a for a digit-pair a below 2^53 and 0 <= m <= 8
WideTimes(a, m) ==
    [hi |-> m * a.hi + (m * a.lo) \div Digit, lo |-> (m * a.lo) % Digit]

\* m * 2^k as two digits, 0 <= m <= 7 and m * 2^k < 2^54
WideScaled(m, k) ==
    IF k >= 28 THEN [hi |-> m * 2^(k - 28), lo |-> 0]
    ELSE [hi |-> (m * 2^k) \div Digit, lo |-> (m * 2^k) % Digit]

\* Long division of the remainder r by d (r < d, 2^52 <= d < 2^53), three
\* quotient bits at a time: the n-bit quotient floor(r * 2^n / d) and the
\* remainder r * 2^n - q * d.
RECURSIVE DivideBits(_, _, _)
DivideBits(r, d, n) ==
    IF n = 0 THEN [q |-> [hi |-> 0, lo |-> 0], r |-> r]
    ELSE LET k == IF n >= 3 THEN 3 ELSE n
             rk == WideTimes(r, 2^k)
             \* the quotient digit: how many of d, 2d, .. fit into rk
             qd == Cardinality({m \in 1..(2^k - 1) :
                                    ~WideLess(rk, WideTimes(d, m))})
             rest == DivideBits(WideSub(rk, WideTimes(d, qd)), d, n - k)
             high == WideScaled(qd, n - k)
         IN [q |-> [hi |-> high.hi + rest.q.hi, lo |-> high.lo + rest.q.lo],
             r |-> rest.r]

\* x / y
FDiv(x, y) ==
    IF x.kind = "nan" \/ y.kind = "nan" THEN NaN
    ELSE IF x.kind = "inf"
    THEN (IF y.kind = "inf" THEN NaN ELSE Infinite(x.neg # y.neg))
    ELSE IF y.kind = "inf" THEN Zero(x.neg # y.neg)
    ELSE IF y.kind = "zero"
    THEN (IF x.kind = "zero" THEN NaN ELSE Infinite(x.neg # y.neg))
    ELSE IF x.kind = "zero" THEN Zero(x.neg # y.neg)
    ELSE LET mx == Significand(x)
             my == Significand(y)
             neg == (x.neg # y.neg)
             first == ~WideLess(mx, my)
             \* mx / my is in [1, 2) or in (1/2, 1): 53 quotient bits
             rest == IF first THEN DivideBits(WideSub(mx, my), my, 52)
                     ELSE DivideBits(mx, my, 53)
             d == IF first
                  THEN [q |-> [hi |-> rest.q.hi + 2^24, lo |-> rest.q.lo],
                        r |-> rest.r]
                  ELSE rest
             e == x.e - y.e - (IF first THEN 52 ELSE 53)
             twice == WideTwicePlus(d.r, 0)
             up == \/ WideLess(my, twice)
                   \/ (twice = my /\ d.q.lo % 2 = 1)
         IN IF up THEN RoundedUp(neg, d.q, e) ELSE Finite(neg, d.q, e)

\* the four 14-bit limbs of a significand, least significant first
Limbs(m) == << m.lo % Limb, m.lo \div Limb, m.hi % Limb, m.hi \div Limb >>

\* column k (0..6) of the schoolbook product of two four-limb numbers
Column(a, b, k) ==
    LET Term(i) == IF k - i >= 0 /\ k - i <= 3 THEN a[i + 1] * b[k - i + 1]
                   ELSE 0
    IN Term(0) + Term(1) + Term(2) + Term(3)

\* the eight limbs of the product, carries propagated
RECURSIVE ProductLimbs(_, _, _, _)
ProductLimbs(a, b, k, carry) ==
    IF k = 7 THEN << carry >>
    ELSE LET c == Column(a, b, k) + carry
         IN << c % Limb >> \o ProductLimbs(a, b, k + 1, c \div Limb)

\* x * y
FMul(x, y) ==
    IF x.kind = "nan" \/ y.kind = "nan" THEN NaN
    ELSE IF x.kind = "inf" \/ y.kind = "inf"
    THEN (IF x.kind = "zero" \/ y.kind = "zero" THEN NaN
          ELSE Infinite(x.neg # y.neg))
    ELSE IF x.kind = "zero" \/ y.kind = "zero" THEN Zero(x.neg # y.neg)
    ELSE LET p == ProductLimbs(Limbs(Significand(x)), Limbs(Significand(y)),
                               0, 0)
             D0 == p[1] + p[2] * Limb
             D1 == p[3] + p[4] * Limb
             D2 == p[5] + p[6] * Limb
             D3 == p[7] + p[8] * Limb
             \* the product has 106 bits iff D3 >= 2^21, else 105
             t == IF D3 >= 2^21 THEN 25 ELSE 24
             q == [hi |-> (D2 \div 2^t) + D3 * 2^(28 - t),
                   lo |-> (D1 \div 2^t) + (D2 % 2^t) * 2^(28 - t)]
             rem == D1 % 2^t
             half == 2^(t - 1)
             up == \/ rem > half
                   \/ (rem = half /\ D0 > 0)
                   \/ (rem = half /\ D0 = 0 /\ q.lo % 2 = 1)
             neg == (x.neg # y.neg)
             e == x.e + y.e + 28 + t
         IN IF up THEN RoundedUp(neg, q, e) ELSE Finite(neg, q, e)

\* floor(t / 2^k) for a number given by five limbs, k >= 27
ShiftRight(t, k) ==
    LET q == k \div 14
        r == k % 14
        Part(i) == IF i < q \/ i > 4 THEN 0
                   ELSE IF t[i + 1] = 0 THEN 0
                   ELSE IF i = q THEN t[i + 1] \div 2^r
                   ELSE t[i + 1] * 2^(14 * (i - q) - r)
    IN Part(0) + Part(1) + Part(2) + Part(3) + Part(4)

\* ten times a significand, as five limbs
TimesTen(m) ==
    LET a == Limbs(m)
        c0 == 10 * a[1]
        c1 == 10 * a[2] + c0 \div Limb
        c2 == 10 * a[3] + c1 \div Limb
        c3 == 10 * a[4] + c2 \div Limb
    IN << c0 % Limb, c1 % Limb, c2 % Limb, c3 % Limb, c3 \div Limb >>

(***************************************************************************)
(* Number(x.toFixed(1)).  toFixed(1) writes the decimal n / 10 for the     *)
(* integer n that makes n / 10 - x closest to zero, the larger n on a tie  *)
(* (for x < 0: minus the digits of -x); NaN and the infinities are written *)
(* by name.  Number() reads the string back, so the value is denoted here  *)
(* by its kind and by n, the number of tenths.  Defined for |x| < 2^25.    *)
(***************************************************************************)
Tenths(kind, n) == [kind |-> kind, tenths |-> n]

NumberOfToFixed1(x) ==
    IF x.kind = "nan" THEN Tenths("NaN", 0)
    ELSE IF x.kind = "inf"
    THEN Tenths(IF x.neg THEN "-Infinity" ELSE "Infinity", 0)
    ELSE IF x.kind = "zero" THEN Tenths("finite", 0)
    ELSE LET \* floor(20 * |x|), then n = floor((floor(20 * |x|) + 1) / 2)
             twenty == ShiftRight(TimesTen(Significand(x)), -x.e - 1)
             n == (twenty + 1) \div 2
         IN Tenths("finite", IF x.neg THEN -n ELSE n)

\* calculateBMI cutting the quotient to one decimal instead of rounding it
calculateBMI_Truncates(w, h) ==
    LET heightM == FDiv(ToNumber(h), ToNumber(100))
        x == FDiv(ToNumber(w), FMul(heightM, heightM))
    IN IF x.kind = "finite"
       THEN Tenths("finite",
                   (IF x.neg THEN -1 ELSE 1)
                   * (ShiftRight(TimesTen(Significand(x)), -x.e - 1) \div 2))
       ELSE NumberOfToFixed1(x)

calculateBMI(w, h) ==
    LET heightM == FDiv(ToNumber(h), ToNumber(100))
    IN NumberOfToFixed1(FDiv(ToNumber(w), FMul(heightM, heightM)))

(***************************************************************************)
(* AssessmentPage: the FMS step of the wizard                              *)
(***************************************************************************)
InitialFmsScores == [i \in 1..7 |-> <<FMSKeys[i], 2>>]

ScoreButtons_UpToFour == MinScore..(MaxScore + 1)

\* the buttons [0, 1, 2, 3] of each movement
ScoreButtons == MinScore..MaxScore

\* className of the "Total Score" figure
WizardTotalColor(fms) ==
    IF calculateFMSTotal(fms) >= 14 THEN "text-green-600"
    ELSE IF calculateFMSTotal(fms) >= 12 THEN "text-yellow-600"
    ELSE "text-red-600"

\* the sentence under the "Total Score" figure
WizardRiskText(fms) ==
    IF calculateFMSTotal(fms) >= 14 THEN "Low injury risk"
    ELSE IF calculateFMSTotal(fms) >= 12 THEN "Moderate injury risk"
    ELSE "Higher injury risk - consider corrective exercises"

STEPS ==
    << "Personal Info", "Body Metrics", "Health History", "Injuries",
       "Goals", "Exercise History", "Lifestyle", "Availability", "Strength",
       "Cardio", "FMS Assessment" >>

BodyMetricsStep == 1
FMSStep == 10

InitialBodyMetrics == [height_cm |-> 170, weight_kg |-> 70]

\* Number(e.target.value) of the height and weight inputs: the numbers typed,
\* 0 for a cleared field
TypedMeasures == 0..MaxTypedMeasure

\* the movements whose score buttons are clicked
EditedMovements == 1..MaxEditedMovements

NoSubmit == [await |-> "none", fms_scores |-> << >>, body_metrics |-> << >>]

NoRequest == [sent |-> FALSE, fms_scores |-> << >>, body_metrics |-> << >>]

NothingShown == [shows |-> "nothing"]

\* the derived values computed once from the initial state
Render_ComputedOnce(step, body, fms) ==
    IF step = BodyMetricsStep
    THEN [shows |-> "bmi",
          bmi |-> calculateBMI(InitialBodyMetrics.weight_kg,
                               InitialBodyMetrics.height_cm)]
    ELSE IF step = FMSStep
    THEN [shows |-> "fms",
          total |-> calculateFMSTotal(InitialFmsScores),
          color |-> WizardTotalColor(InitialFmsScores),
          text |-> WizardRiskText(InitialFmsScores)]
    ELSE NothingShown

\* renderStepContent: case 1 shows the BMI, case 10 the FMS total with its
\* colour and sentence; the other steps show no derived value
Render(step, body, fms) ==
    IF step = BodyMetricsStep
    THEN [shows |-> "bmi",
          bmi |-> calculateBMI(body.weight_kg, body.height_cm)]
    ELSE IF step = FMSStep
    THEN [shows |-> "fms",
          total |-> calculateFMSTotal(fms),
          color |-> WizardTotalColor(fms),
          text |-> WizardRiskText(fms)]
    ELSE NothingShown

\* a field change counts while a handleSubmit call is suspended
CountEdit ==
    /\ (submit.await # "none") => editsInFlight < MaxEditsInFlight
    /\ editsInFlight' =
           IF submit.await # "none" THEN editsInFlight + 1 ELSE editsInFlight

\* onClick of the score button of one movement
SetFmsScore(key, score) ==
    /\ pc = "wizard"
    /\ location = "assessment"
    /\ currentStep = FMSStep
    /\ CountEdit
    /\ fmsScores' = SpreadSet(fmsScores, key, score)
    /\ view' = Render(currentStep, bodyMetrics, fmsScores')
    /\ UNCHANGED <<scores, total, risk, weightKg, heightCm, bmi, pc>>
    /\ UNCHANGED <<currentStep, loading, error, bodyMetrics, submit,
                   lastPost, location>>
    /\ UNCHANGED <<dbVars, settingsVars, pageVars>>

ClickScoreButton ==
    \E i \in EditedMovements : \E score \in ScoreButtons :
        SetFmsScore(FMSKeys[i], score)

\* onChange of the height input
SetHeight(value) ==
    /\ pc = "wizard"
    /\ location = "assessment"
    /\ currentStep = BodyMetricsStep
    /\ CountEdit
    /\ bodyMetrics' = [bodyMetrics EXCEPT !.height_cm = value]
    /\ view' = Render(currentStep, bodyMetrics', fmsScores)
    /\ UNCHANGED <<fmsScores, scores, total, risk, weightKg, heightCm, bmi,
                   pc>>
    /\ UNCHANGED <<currentStep, loading, error, submit, lastPost, location>>
    /\ UNCHANGED <<dbVars, settingsVars, pageVars>>

\* onChange of the weight input
SetWeight(value) ==
    /\ pc = "wizard"
    /\ location = "assessment"
    /\ currentStep = BodyMetricsStep
    /\ CountEdit
    /\ bodyMetrics' = [bodyMetrics EXCEPT !.weight_kg = value]
    /\ view' = Render(currentStep, bodyMetrics', fmsScores)
    /\ UNCHANGED <<fmsScores, scores, total, risk, weightKg, heightCm, bmi,
                   pc>>
    /\ UNCHANGED <<currentStep, loading, error, submit, lastPost, location>>
    /\ UNCHANGED <<dbVars, settingsVars, pageVars>>

TypeMeasure ==
    \E value \in TypedMeasures : SetHeight(value) \/ SetWeight(value)

\* onClick of Previous, disabled at step 0
PreviousStep ==
    /\ pc = "wizard"
    /\ location = "assessment"
    /\ ~(currentStep = 0)
    /\ currentStep' = currentStep - 1
    /\ view' = Render(currentStep', bodyMetrics, fmsScores)
    /\ UNCHANGED <<fmsScores, scores, total, risk, weightKg, heightCm, bmi,
                   pc>>
    /\ UNCHANGED <<loading, error, bodyMetrics, submit, lastPost, location,
                   editsInFlight>>
    /\ UNCHANGED <<dbVars, settingsVars, pageVars>>

\* the button at the right is Save Assessment at the last step, Next before
SaveOffered == currentStep = Len(STEPS) - 1

NextOffered_Always == TRUE

NextOffered == ~SaveOffered

\* onClick of Next
NextStep ==
    /\ pc = "wizard"
    /\ location = "assessment"
    /\ NextOffered
    /\ currentStep' = currentStep + 1
    /\ view' = Render(currentStep', bodyMetrics, fmsScores)
    /\ UNCHANGED <<fmsScores, scores, total, risk, weightKg, heightCm, bmi,
                   pc>>
    /\ UNCHANGED <<loading, error, bodyMetrics, submit, lastPost, location,
                   editsInFlight>>
    /\ UNCHANGED <<dbVars, settingsVars, pageVars>>

(***************************************************************************)
(* handleSubmit.  The call is suspended at each await; the values of         *)
(* fmsScores and bodyMetrics it uses are those of the render in which Save  *)
(* Assessment was clicked.                                                  *)
(***************************************************************************)
\* values a rejected promise is rejected with: an Error with its message, or
\* a value that is no Error
ThrownValues ==
    { [isError |-> TRUE, message |-> "Failed to fetch"],
      [isError |-> FALSE, message |-> ""] }

\* the detail member of an error response body, with the string new Error
\* makes of it: absent, an empty string, a string, the list of a validation
\* error, an empty list (whose string form is empty), or an object
ResponseDetails ==
    { [type |-> "undefined", string |-> ""],
      [type |-> "string", string |-> ""],
      [type |-> "string", string |-> "Client not found"],
      [type |-> "array", string |-> "[object Object]"],
      [type |-> "array", string |-> ""],
      [type |-> "object", string |-> "[object Object]"] }

\* The left operand of || is taken when it is truthy.  A JavaScript value
\* is a record of its type and, under the field named after the type, the
\* value.  The falsy values are undefined, null, the empty string, the
\* number 0 and false; every other value is truthy, arrays and objects
\* (empty ones too) included.
Truthy(detail) ==
    CASE detail.type \in {"undefined", "null"} -> FALSE
      [] detail.type = "string" -> detail.string # ""
      [] detail.type = "number" -> detail.number # 0
      [] detail.type = "boolean" -> detail.boolean
      [] OTHER -> TRUE

FailureMessage(detail) ==
    IF Truthy(detail) THEN detail.string ELSE "Failed to save assessment"

\* catch (err) { setError(...) } finally { setLoading(false) }
CatchAndFinally(err) ==
    /\ error' = IF err.isError THEN err.message ELSE "An error occurred"
    /\ loading' = FALSE
    /\ submit' = NoSubmit

ErrorOf(message) == [isError |-> TRUE, message |-> message]

AssessmentData_StaleTotal(fms, body) ==
    [sent |-> TRUE,
     body_metrics |-> body,
     fms_scores |-> SpreadSet(fms, "total_score",
                              calculateFMSTotal(InitialFmsScores))]

\* the body of the POST: body_metrics and fms_scores of assessmentData
AssessmentData(fms, body) ==
    [sent |-> TRUE,
     body_metrics |-> body,
     fms_scores |-> SpreadSet(fms, "total_score", calculateFMSTotal(fms))]

SaveDisabled_Never == FALSE

\* disabled={loading} of the Save Assessment button
SaveDisabled == loading

\* onClick of Save Assessment, disabled while loading: handleSubmit up to
\* await supabase.auth.getSession()
ClickSave ==
    /\ pc = "wizard"
    /\ location = "assessment"
    /\ SaveOffered
    /\ ~SaveDisabled
    /\ loading' = TRUE
    /\ error' = ""
    /\ submit' = [await |-> "getSession", fms_scores |-> fmsScores,
                  body_metrics |-> bodyMetrics]
    /\ editsInFlight' = 0
    /\ UNCHANGED <<fmsScores, scores, total, risk, weightKg, heightCm, bmi,
                   pc>>
    /\ UNCHANGED <<currentStep, bodyMetrics, lastPost, location, view>>
    /\ UNCHANGED <<dbVars, settingsVars, pageVars>>

\* getSession resolved with a session: assessmentData is built and the POST
\* is sent, up to await fetch(...)
SessionFound ==
    /\ submit.await = "getSession"
    /\ lastPost' = AssessmentData(submit.fms_scores, submit.body_metrics)
    /\ submit' = [submit EXCEPT !.await = "fetch"]
    /\ UNCHANGED <<fmsScores, scores, total, risk, weightKg, heightCm, bmi,
                   pc>>
    /\ UNCHANGED <<currentStep, loading, error, bodyMetrics, location, view,
                   editsInFlight>>
    /\ UNCHANGED <<dbVars, settingsVars, pageVars>>

\* getSession resolved without a session, or was rejected
SessionMissing ==
    /\ submit.await = "getSession"
    /\ \/ CatchAndFinally(ErrorOf("Not authenticated"))
       \/ \E thrown \in ThrownValues : CatchAndFinally(thrown)
    /\ UNCHANGED <<fmsScores, scores, total, risk, weightKg, heightCm, bmi,
                   pc>>
    /\ UNCHANGED <<currentStep, bodyMetrics, lastPost, location, view,
                   editsInFlight>>
    /\ UNCHANGED <<dbVars, settingsVars, pageVars>>

\* fetch resolved with response.ok: router.push, then the finally block
ResponseOk ==
    /\ submit.await = "fetch"
    /\ lastPost' = NoRequest
    /\ location' = "client"
    /\ loading' = FALSE
    /\ submit' = NoSubmit
    /\ UNCHANGED <<fmsScores, scores, total, risk, weightKg, heightCm, bmi,
                   pc>>
    /\ UNCHANGED <<currentStep, error, bodyMetrics, view, editsInFlight>>
    /\ UNCHANGED <<dbVars, settingsVars, pageVars>>

\* fetch resolved with a response that is not ok, up to await response.json()
ResponseNotOk ==
    /\ submit.await = "fetch"
    /\ lastPost' = NoRequest
    /\ submit' = [submit EXCEPT !.await = "json"]
    /\ UNCHANGED <<fmsScores, scores, total, risk, weightKg, heightCm, bmi,
                   pc>>
    /\ UNCHANGED <<currentStep, loading, error, bodyMetrics, location, view,
                   editsInFlight>>
    /\ UNCHANGED <<dbVars, settingsVars, pageVars>>

\* fetch was rejected
FetchRejected ==
    /\ submit.await = "fetch"
    /\ lastPost' = NoRequest
    /\ \E thrown \in ThrownValues : CatchAndFinally(thrown)
    /\ UNCHANGED <<fmsScores, scores, total, risk, weightKg, heightCm, bmi,
                   pc>>
    /\ UNCHANGED <<currentStep, bodyMetrics, location, view, editsInFlight>>
    /\ UNCHANGED <<dbVars, settingsVars, pageVars>>

\* response.json() resolved with the error body, or was rejected
ErrorBodyRead ==
    /\ submit.await = "json"
    /\ \/ \E detail \in ResponseDetails :
              CatchAndFinally(ErrorOf(FailureMessage(detail)))
       \/ \E thrown \in ThrownValues : CatchAndFinally(thrown)
    /\ UNCHANGED <<fmsScores, scores, total, risk, weightKg, heightCm, bmi,
                   pc>>
    /\ UNCHANGED <<currentStep, bodyMetrics, lastPost, location, view,
                   editsInFlight>>
    /\ UNCHANGED <<dbVars, settingsVars, pageVars>>

(***************************************************************************)
(* Initial states                                                           *)
(***************************************************************************)
\* AssessmentPage after its first render
WizardInit ==
    /\ fmsScores = InitialFmsScores
    /\ currentStep = 0
    /\ loading = FALSE
    /\ error = ""
    /\ bodyMetrics = InitialBodyMetrics
    /\ submit = NoSubmit
    /\ lastPost = NoRequest
    /\ location = "assessment"
    /\ view = Render(0, InitialBodyMetrics, InitialFmsScores)
    /\ editsInFlight = 0

\* no scoring function has been called
CallsInit ==
    /\ scores = << >>
    /\ total = NotCalled
    /\ risk = NotCalled
    /\ weightKg = 0
    /\ heightCm = 0
    /\ bmi = NotCalled

NoResult == [op |-> "none", ok |-> TRUE, rows |-> {}]

\* empty tables
DbInit ==
    /\ clients = {}
    /\ assessments = {}
    /\ plans = {}
    /\ uuids = 0
    /\ lastRead = NoResult
    /\ exercises = {}
    /\ workoutDays = {}

\* getUser returns no user
NoUser == [present |-> FALSE, email |-> "", user_metadata |-> << >>]

NoUpdate == [sent |-> FALSE, data |-> << >>]

\* SettingsPage after its first render, fetchProfile awaiting getUser, which
\* will return one of users
SettingsInit(users) ==
    /\ profile = [name |-> "", email |-> "", training_philosophy |-> "",
                  specializations |-> << >>]
    /\ specializationInput = << >>
    /\ saving = FALSE
    /\ saved = FALSE
    /\ profileFetch = "pending"
    /\ authUser \in users
    /\ lastUpdate = NoUpdate
    /\ listInput = << >>
    /\ listItems = << >>

ClientIds == {1, 2}

\* no alert has been shown
NoAlert == [text |-> "", response |-> "none"]

\* a page after its first render and the run of its mount effect: loading
\* is true, nothing is loaded, and the loader awaits getSession
PagesInit(names) ==
    /\ mounted \in names
    /\ idChanges = 0
    /\ sendCalls = << >>
    /\ alertShown = NoAlert
    /\ sendingEmail = FALSE
    /\ \E id \in ClientIds :
           /\ (mounted # "client detail") => id = 1
           /\ pageState = [loading |-> TRUE, clientId |-> id, client |-> 0,
                           assessments |-> << >>, plans |-> << >>,
                           items |-> << >>]
           /\ loaderCalls =
                  IF mounted = "none" THEN << >>
                  ELSE <<[clientId |-> id, await |-> "getSession",
                          stage |-> 1]>>

(***************************************************************************)
(* The assessment wizard                                                    *)
(***************************************************************************)
Init ==
    /\ WizardInit /\ CallsInit /\ DbInit /\ SettingsInit({NoUser})
    /\ PagesInit({"none"})
    /\ pc = "wizard"

Next ==
    \/ ClickScoreButton
    \/ TypeMeasure
    \/ PreviousStep
    \/ NextStep
    \/ ClickSave
    \/ SessionFound
    \/ SessionMissing
    \/ ResponseOk
    \/ ResponseNotOk
    \/ FetchRejected
    \/ ErrorBodyRead

Spec == Init /\ [][Next]_vars

(***************************************************************************)
(* Calls of calculateFMSTotal and getFMSRiskLevel on argument objects      *)
(***************************************************************************)
ScoreInputs == (-MaxNegativeScore)..MaxScoreInput

ScoresObject(f) == [i \in 1..7 |-> <<FMSKeys[i], f[i]>>]

ValidScores == MinScore..MaxScore

\* The argument is one of:
\*  - an object with the seven fields, sub-scores inside and outside 0..3;
\*  - an object that lacks one of the seven fields;
\*  - an FMSScores record as handleSubmit builds it,
\*    { ...fmsScores, total_score: calculateFMSTotal(fmsScores) }.
InitFMS ==
    /\ WizardInit /\ DbInit /\ SettingsInit({NoUser})
    /\ PagesInit({"none"})
    /\ \/ \E f \in [1..7 -> ScoreInputs] : scores = ScoresObject(f)
       \/ \E f \in [1..7 -> ValidScores] : \E i \in 1..7 :
              scores = WithoutProperty(ScoresObject(f), i)
       \/ \E f \in [1..7 -> ValidScores] :
              scores = SpreadSet(ScoresObject(f), "total_score",
                                 calculateFMSTotal(ScoresObject(f)))
    /\ total = NotCalled
    /\ risk = NotCalled
    /\ weightKg = 0
    /\ heightCm = 0
    /\ bmi = NotCalled
    /\ pc = "start"

CallCalculateFMSTotal ==
    /\ pc = "start"
    /\ total' = Returned(calculateFMSTotal(scores))
    /\ pc' = "summed"
    /\ UNCHANGED <<fmsScores, scores, risk, weightKg, heightCm, bmi>>
    /\ UNCHANGED <<wizardVars, dbVars, settingsVars, pageVars>>

CallGetFMSRiskLevel ==
    /\ pc = "summed"
    /\ total.threw = "none"
    /\ risk' = Returned(getFMSRiskLevel(total.value))
    /\ pc' = "classified"
    /\ UNCHANGED <<fmsScores, scores, total, weightKg, heightCm, bmi>>
    /\ UNCHANGED <<wizardVars, dbVars, settingsVars, pageVars>>

NextFMS == CallCalculateFMSTotal \/ CallGetFMSRiskLevel

SpecFMS == InitFMS /\ [][NextFMS]_vars

(***************************************************************************)
(* Calls of calculateBMI                                                   *)
(***************************************************************************)
WeightInputs == (-MaxNegativeMeasure)..MaxWeightInput

HeightInputs == (-MaxNegativeMeasure)..MaxHeightInput

InitBMI ==
    /\ WizardInit /\ DbInit /\ SettingsInit({NoUser})
    /\ PagesInit({"none"})
    /\ scores = << >>
    /\ total = NotCalled
    /\ risk = NotCalled
    /\ weightKg \in WeightInputs
    /\ heightCm \in HeightInputs
    /\ bmi = NotCalled
    /\ pc = "start"

CallCalculateBMI ==
    /\ pc = "start"
    /\ bmi' = Returned(calculateBMI(weightKg, heightCm))
    /\ pc' = "measured"
    /\ UNCHANGED <<fmsScores, scores, total, risk, weightKg, heightCm>>
    /\ UNCHANGED <<wizardVars, dbVars, settingsVars, pageVars>>

NextBMI == CallCalculateBMI

SpecBMI == InitBMI /\ [][NextBMI]_vars

(***************************************************************************)
(* Properties of the FMS total and of the risk classification              *)
(***************************************************************************)
RiskBands == {"low", "moderate", "high"}

MaxTotal == 7 * MaxScore

\* scores.key
SubScore(obj, key) == obj[CHOOSE i \in 1..Len(obj) : obj[i][1] = key][2]

HasSevenFields(obj) ==
    \A i \in 1..7 : HasKey(obj, FMSKeys[i])

OnlySevenFields(obj) ==
    HasSevenFields(obj) /\ Len(obj) = 7

AllSubScoresValid(obj) ==
    \A i \in 1..7 : HasKey(obj, FMSKeys[i]) => SubScore(obj, FMSKeys[i]) \in ValidScores

SumOfNamedFields(obj) ==
    SubScore(obj, "deep_squat") + SubScore(obj, "hurdle_step")
    + SubScore(obj, "inline_lunge") + SubScore(obj, "shoulder_mobility")
    + SubScore(obj, "active_straight_leg_raise")
    + SubScore(obj, "trunk_stability_pushup")
    + SubScore(obj, "rotary_stability")

TotalCalled == pc \in {"summed", "classified"}

\* C1: for every total in 0..21 getFMSRiskLevel returns exactly one band:
\* low iff total >= 15, moderate iff 12 <= total < 15, high iff total < 12
\* (so 15 is low, 14 and 12 are moderate, 11 is high).
C1_RiskBands ==
    (pc = "classified" /\ total.value \in 0..MaxTotal) =>
        /\ risk.threw = "none"
        /\ risk.value.level \in RiskBands
        /\ (risk.value.level = "low") <=> (total.value >= 15)
        /\ (risk.value.level = "moderate") <=>
               (total.value >= 12 /\ total.value < 15)
        /\ (risk.value.level = "high") <=> (total.value < 12)
        /\ (total.value = 15 => risk.value.level = "low")
        /\ (total.value = 14 => risk.value.level = "moderate")
        /\ (total.value = 12 => risk.value.level = "moderate")
        /\ (total.value = 11 => risk.value.level = "high")

C1_Witness ==
    pc = "classified" /\ total.value = 14 /\ risk.value.level = "moderate"

\* level shown by the wizard's feedback sentence
BandOfText(text) ==
    IF text = "Low injury risk" THEN "low"
    ELSE IF text = "Moderate injury risk" THEN "moderate"
    ELSE "high"

\* C2: the band of the wizard's live feedback (colour and sentence) is the
\* band getFMSRiskLevel returns for the same total.
C2_WizardUsesSharedBands ==
    pc = "wizard" =>
        /\ WizardTotalColor(fmsScores)
               = getFMSRiskLevel(calculateFMSTotal(fmsScores)).color
        /\ BandOfText(WizardRiskText(fmsScores))
               = getFMSRiskLevel(calculateFMSTotal(fmsScores)).level

\* C3: on a record of exactly the seven sub-scores, each in 0..3,
\* calculateFMSTotal returns the sum of the seven named sub-scores.
C3_TotalIsSum ==
    (TotalCalled /\ OnlySevenFields(scores) /\ AllSubScoresValid(scores)) =>
        /\ total.threw = "none"
        /\ total.value = SumOfNamedFields(scores)
        /\ (scores = ScoresObject([i \in 1..7 |-> 2]) => total.value = 14)

C3_Witness ==
    /\ pc = "summed"
    /\ scores = ScoresObject([i \in 1..7 |-> 2])
    /\ total.value = 14

\* C4: calculateFMSTotal fails with InvalidScore, and returns no number,
\* whenever one of the seven sub-scores lies outside 0..3.
C4_OutOfRangeRejected ==
    (TotalCalled /\ ~AllSubScoresValid(scores)) =>
        total.threw = "InvalidScore"

\* C5: calculateFMSTotal fails with InvalidScore when the record lacks one
\* of the seven sub-score fields.
C5_MissingFieldRejected ==
    (TotalCalled /\ ~HasSevenFields(scores)) =>
        total.threw = "InvalidScore"

\* C9: for seven sub-scores each in 0..3 the total is an integer in 0..21
\* and classifying it yields one of low, moderate, high without failing.
C9_TotalInRangeAndClassified ==
    (OnlySevenFields(scores) /\ AllSubScoresValid(scores)) =>
        /\ TotalCalled =>
               (total.threw = "none" /\ total.value \in 0..MaxTotal)
        /\ pc = "summed" => ENABLED CallGetFMSRiskLevel
        /\ pc = "classified" =>
               (risk.threw = "none" /\ risk.value.level \in RiskBands)

C9_Witness ==
    /\ pc = "classified"
    /\ OnlySevenFields(scores)
    /\ total.value = MaxTotal
    /\ risk.value.level = "low"

\* C10: a field other than the seven sub-scores (such as total_score) in
\* the record does not change the total: it is the sum of the seven named
\* sub-scores.
C10_ExtraFieldIgnored ==
    (TotalCalled /\ HasSevenFields(scores) /\ AllSubScoresValid(scores)
        /\ HasKey(scores, "total_score")) =>
        total.value = SumOfNamedFields(scores)

(***************************************************************************)
(* Properties of the BMI                                                   *)
(***************************************************************************)
\* min and max of the wizard's height and weight inputs
MinHeightCm == 100
MaxHeightCm == 250
MinWeightKg == 30
MaxWeightKg == 300

\* C6: calculateBMI fails with InvalidMeasurement whenever heightCm is zero
\* or negative; it returns neither Infinity nor NaN.
C6_NonPositiveHeightRejected ==
    (pc = "measured" /\ heightCm <= 0) =>
        bmi.threw = "InvalidMeasurement"

\* C7: calculateBMI fails with InvalidMeasurement whenever weightKg is zero
\* or negative, also for a positive heightCm; it returns no BMI <= 0.
C7_NonPositiveWeightRejected ==
    (pc = "measured" /\ weightKg <= 0 /\ heightCm > 0) =>
        bmi.threw = "InvalidMeasurement"

\* C8: for integer weightKg in 30..300 and heightCm in 100..250 the BMI is
\* weightKg * 10000 / heightCm^2 rounded to the nearest tenth: ten times the
\* result, n, is an integer nearest to weightKg * 100000 / heightCm^2, that
\* is |n - weightKg * 100000 / heightCm^2| <= 1/2; (70, 170) gives 24.2.
C8_NearestTenth ==
    (pc = "measured" /\ weightKg \in MinWeightKg..MaxWeightKg
        /\ heightCm \in MinHeightCm..MaxHeightCm) =>
        /\ bmi.threw = "none"
        /\ bmi.value.kind = "finite"
        /\ 2 * Abs(bmi.value.tenths * heightCm * heightCm - weightKg * 100000)
               <= heightCm * heightCm
        /\ (weightKg = 70 /\ heightCm = 170) => bmi.value.tenths = 242

C8_Witness ==
    /\ pc = "measured"
    /\ weightKg = 70
    /\ heightCm = 170
    /\ bmi.value = Tenths("finite", 242)

(***************************************************************************)
(* The database under row-level security, and the assessment API.  A coach *)
(* reaches the tables with SQL statements under the policies, or through    *)
(* the API, whose backend uses the service key.                             *)
(***************************************************************************)
Coaches == {"coach A", "coach B"}

\* the JSONB columns of an assessment row
AssessmentPayloads == {"first visit", "second visit"}

\* commands for which a policy on assessments exists; with row-level
\* security enabled, a command without a policy reaches no row
AssessmentPolicyCommands_WithUpdate == {"SELECT", "INSERT", "UPDATE"}

AssessmentPolicyCommands == {"SELECT", "INSERT"}

ClientPolicyCommands == {"SELECT", "INSERT", "UPDATE", "DELETE"}

\* coach_id = auth.uid()
ClientPolicy(uid, row) == row.coach_id = uid

\* client_id IN (SELECT id FROM clients WHERE coach_id = auth.uid())
AssessmentPolicy(uid, row) ==
    row.client_id \in {c.id : c \in {d \in clients : d.coach_id = uid}}

ClientPermitted(command, uid, row) ==
    command \in ClientPolicyCommands /\ ClientPolicy(uid, row)

AssessmentPermitted(command, uid, row) ==
    command \in AssessmentPolicyCommands /\ AssessmentPolicy(uid, row)

\* the operations of assessmentApi with the method of their request
assessmentApi ==
    { [name |-> "list", method |-> "GET"],
      [name |-> "get", method |-> "GET"],
      [name |-> "create", method |-> "POST"],
      [name |-> "generatePlan", method |-> "POST"] }

Result(op, ok, rows) == [op |-> op, ok |-> ok, rows |-> rows]

OthersUnchangedByDb ==
    UNCHANGED <<fmsScores, callVars, pc, wizardVars, settingsVars, pageVars,
                exercises, workoutDays>>

\* INSERT INTO clients (coach_id) VALUES (owner), run as uid
InsertClient(uid, owner) ==
    /\ pc = "database"
    /\ uuids < MaxUuids
    /\ LET row == [id |-> uuids + 1, coach_id |-> owner]
       IN  IF ClientPermitted("INSERT", uid, row)
           THEN /\ clients' = clients \cup {row}
                /\ uuids' = uuids + 1
                /\ lastRead' = Result("insert client", TRUE, {row})
           ELSE /\ lastRead' = Result("insert client", FALSE, {})
                /\ UNCHANGED <<clients, uuids>>
    /\ UNCHANGED <<assessments, plans>>
    /\ OthersUnchangedByDb

\* DELETE FROM clients WHERE id = ..., run as uid; assessments and
\* workout_plans reference clients ON DELETE CASCADE, workout_days
\* reference workout_plans ON DELETE CASCADE
DeleteClient(uid, id) ==
    /\ pc = "database"
    /\ LET gone == {c \in clients : c.id = id /\ ClientPermitted("DELETE", uid, c)}
           ids == {c.id : c \in gone}
       IN  /\ clients' = clients \ gone
           /\ assessments' = {a \in assessments : a.client_id \notin ids}
           /\ plans' = {q \in plans : q.client_id \notin ids}
           /\ workoutDays' = {d \in workoutDays :
                                 d.plan_id \in {q.id : q \in plans'}}
           /\ lastRead' = Result("delete client", TRUE, gone)
    /\ UNCHANGED <<uuids, exercises>>
    /\ UNCHANGED <<fmsScores, callVars, pc, wizardVars, settingsVars, pageVars>>

\* SELECT * FROM assessments, run as uid
SelectAssessments(uid) ==
    /\ pc = "database"
    /\ lastRead' = Result("select", TRUE,
                          {a \in assessments : AssessmentPermitted("SELECT", uid, a)})
    /\ UNCHANGED <<clients, assessments, plans, uuids>>
    /\ OthersUnchangedByDb

\* INSERT INTO assessments (client_id, ...) VALUES (...), run as uid
InsertAssessment(uid, client, payload) ==
    /\ pc = "database"
    /\ uuids < MaxUuids
    /\ LET row == [id |-> uuids + 1, client_id |-> client, payload |-> payload]
       IN  IF /\ AssessmentPermitted("INSERT", uid, row)
              /\ client \in {c.id : c \in clients}
           THEN /\ assessments' = assessments \cup {row}
                /\ uuids' = uuids + 1
                /\ lastRead' = Result("insert", TRUE, {row})
           ELSE /\ lastRead' = Result("insert", FALSE, {})
                /\ UNCHANGED <<assessments, uuids>>
    /\ UNCHANGED <<clients, plans>>
    /\ OthersUnchangedByDb

\* UPDATE assessments SET ... = payload WHERE id = ..., run as uid
UpdateAssessment(uid, id, payload) ==
    /\ pc = "database"
    /\ LET hit == {a \in assessments :
                       a.id = id /\ AssessmentPermitted("UPDATE", uid, a)}
       IN  /\ assessments' =
                  (assessments \ hit)
                  \cup {[a EXCEPT !.payload = payload] : a \in hit}
           /\ lastRead' = Result("update", TRUE, hit)
    /\ UNCHANGED <<clients, plans, uuids>>
    /\ OthersUnchangedByDb

\* DELETE FROM assessments WHERE id = ..., run as uid
DeleteAssessment(uid, id) ==
    /\ pc = "database"
    /\ LET hit == {a \in assessments :
                       a.id = id /\ AssessmentPermitted("DELETE", uid, a)}
       IN  /\ assessments' = assessments \ hit
           /\ lastRead' = Result("delete", TRUE, hit)
    /\ UNCHANGED <<clients, plans, uuids>>
    /\ OthersUnchangedByDb

\* fetchApi: a response that is not ok makes the call throw
ApiFails(name) ==
    /\ pc = "database"
    /\ lastRead' = Result(name, FALSE, {})
    /\ UNCHANGED <<clients, assessments, plans, uuids>>
    /\ OthersUnchangedByDb

\* assessmentApi.list: GET /api/v1/clients/{clientId}/assessments
ApiList(client) ==
    /\ pc = "database"
    /\ lastRead' = Result("list", TRUE,
                          {a \in assessments : a.client_id = client})
    /\ UNCHANGED <<clients, assessments, plans, uuids>>
    /\ OthersUnchangedByDb

\* assessmentApi.get: GET /api/v1/clients/{clientId}/assessments/{id}
ApiGet(client, id) ==
    /\ pc = "database"
    /\ \E a \in assessments :
           /\ a.client_id = client
           /\ a.id = id
           /\ lastRead' = Result("get", TRUE, {a})
    /\ UNCHANGED <<clients, assessments, plans, uuids>>
    /\ OthersUnchangedByDb

\* assessmentApi.create: POST /api/v1/clients/{clientId}/assessments
ApiCreate(client, payload) ==
    /\ pc = "database"
    /\ uuids < MaxUuids
    /\ client \in {c.id : c \in clients}
    /\ LET row == [id |-> uuids + 1, client_id |-> client, payload |-> payload]
       IN  /\ assessments' = assessments \cup {row}
           /\ uuids' = uuids + 1
           /\ lastRead' = Result("create", TRUE, {row})
    /\ UNCHANGED <<clients, plans>>
    /\ OthersUnchangedByDb

\* assessmentApi.generatePlan:
\* POST /api/v1/clients/{clientId}/assessments/{id}/generate-plan
ApiGeneratePlan(uid, client, id) ==
    /\ pc = "database"
    /\ uuids < MaxUuids
    /\ \E a \in assessments :
           /\ a.client_id = client
           /\ a.id = id
           /\ LET row == [id |-> uuids + 1, client_id |-> client,
                          coach_id |-> uid]
              IN  /\ plans' = plans \cup {row}
                  /\ lastRead' = Result("generatePlan", TRUE, {row})
    /\ uuids' = uuids + 1
    /\ UNCHANGED <<clients, assessments>>
    /\ OthersUnchangedByDb

RowIds == 1..MaxUuids

InitDB ==
    /\ WizardInit /\ CallsInit /\ DbInit /\ SettingsInit({NoUser})
    /\ PagesInit({"none"})
    /\ pc = "database"

NextDB ==
    \/ \E uid, owner \in Coaches : InsertClient(uid, owner)
    \/ \E uid \in Coaches : \E id \in RowIds : DeleteClient(uid, id)
    \/ \E uid \in Coaches : SelectAssessments(uid)
    \/ \E uid \in Coaches : \E client \in RowIds :
           \E payload \in AssessmentPayloads :
               InsertAssessment(uid, client, payload)
    \/ \E uid \in Coaches : \E id \in RowIds :
           \E payload \in AssessmentPayloads :
               UpdateAssessment(uid, id, payload)
    \/ \E uid \in Coaches : \E id \in RowIds : DeleteAssessment(uid, id)
    \/ \E op \in assessmentApi : ApiFails(op.name)
    \/ \E client \in RowIds : ApiList(client)
    \/ \E client, id \in RowIds : ApiGet(client, id)
    \/ \E client \in RowIds : \E payload \in AssessmentPayloads :
           ApiCreate(client, payload)
    \/ \E uid \in Coaches : \E client, id \in RowIds :
           ApiGeneratePlan(uid, client, id)

SpecDB == InitDB /\ [][NextDB]_vars

(***************************************************************************)
(* SQL statements of a coach on the five tables under their row-level      *)
(* policies.  A statement touches the rows its policy lets through; a new   *)
(* row must pass the policy's check (for UPDATE, the USING expression,      *)
(* since the policies give no WITH CHECK); foreign keys are checked and     *)
(* their ON DELETE CASCADE actions are carried out without regard to the    *)
(* policies.                                                                *)
(***************************************************************************)
Tables == {"exercises", "clients", "assessments", "workout_plans",
           "workout_days"}

TableRows(table) ==
    CASE table = "exercises" -> exercises
      [] table = "clients" -> clients
      [] table = "assessments" -> assessments
      [] table = "workout_plans" -> plans
      [] table = "workout_days" -> workoutDays

\* the USING / WITH CHECK expression of the policies of a table
RowPolicy(table, uid, row) ==
    CASE table = "assessments" -> AssessmentPolicy(uid, row)
      [] table = "workout_days" ->
             row.plan_id \in {q.id : q \in {p \in plans : p.coach_id = uid}}
      [] OTHER -> ClientPolicy(uid, row)

Permitted(command, table, uid, row) ==
    /\ command \in IF table = "assessments" THEN AssessmentPolicyCommands
                   ELSE ClientPolicyCommands
    /\ RowPolicy(table, uid, row)

\* a row of a table with its coach_id and the row it references
TableRow(table, id, owner, parent) ==
    CASE table \in {"exercises", "clients"} ->
             [id |-> id, coach_id |-> owner]
      [] table = "workout_plans" ->
             [id |-> id, client_id |-> parent, coach_id |-> owner]
      [] table = "assessments" ->
             [id |-> id, client_id |-> parent, payload |-> "first visit"]
      [] table = "workout_days" -> [id |-> id, plan_id |-> parent]

\* REFERENCES clients(id) / workout_plans(id) of a new row
ReferenceHolds(table, row) ==
    CASE table \in {"assessments", "workout_plans"} ->
             row.client_id \in {c.id : c \in clients}
      [] table = "workout_days" -> row.plan_id \in {q.id : q \in plans}
      [] OTHER -> TRUE

\* the table gets the rows; rows whose referenced row is gone are deleted
\* with it (ON DELETE CASCADE)
WriteTable(table, rows) ==
    LET after(t) == IF t = table THEN rows ELSE TableRows(t)
    IN  /\ exercises' = after("exercises")
        /\ clients' = after("clients")
        /\ assessments' = {a \in after("assessments") :
                              a.client_id \in {c.id : c \in clients'}}
        /\ plans' = {q \in after("workout_plans") :
                        q.client_id \in {c.id : c \in clients'}}
        /\ workoutDays' = {d \in after("workout_days") :
                              d.plan_id \in {q.id : q \in plans'}}

\* the outcome of a statement: the rows it returned or affected
Statement(command, table, uid, ok, rows) ==
    [op |-> command, ok |-> ok, rows |-> {<<table, r>> : r \in rows},
     uid |-> uid]

\* SELECT * FROM table, run as uid
SqlSelect(uid, table) ==
    /\ pc = "policies"
    /\ lastRead' = Statement("SELECT", table, uid, TRUE,
                       {r \in TableRows(table) :
                           Permitted("SELECT", table, uid, r)})
    /\ UNCHANGED <<clients, assessments, plans, uuids, exercises,
                   workoutDays>>
    /\ UNCHANGED <<fmsScores, callVars, pc, wizardVars, settingsVars, pageVars>>

\* INSERT INTO table (coach_id / client_id / plan_id) VALUES (...), run as
\* uid
SqlInsert(uid, table, owner, parent) ==
    /\ pc = "policies"
    /\ uuids < MaxUuids
    /\ LET row == TableRow(table, uuids + 1, owner, parent)
       IN  IF Permitted("INSERT", table, uid, row)
              /\ ReferenceHolds(table, row)
           THEN /\ WriteTable(table, TableRows(table) \cup {row})
                /\ uuids' = uuids + 1
                /\ lastRead' = Statement("INSERT", table, uid, TRUE, {row})
           ELSE /\ lastRead' = Statement("INSERT", table, uid, FALSE, {})
                /\ UNCHANGED <<clients, assessments, plans, uuids,
                               exercises, workoutDays>>
    /\ UNCHANGED <<fmsScores, callVars, pc, wizardVars, settingsVars, pageVars>>

\* UPDATE table SET coach_id / client_id / plan_id = ... WHERE id = ...,
\* run as uid
SqlUpdate(uid, table, id, owner, parent) ==
    /\ pc = "policies"
    /\ LET hit == {r \in TableRows(table) :
                      r.id = id /\ Permitted("UPDATE", table, uid, r)}
           row == TableRow(table, id, owner, parent)
       IN  IF hit = {}
           THEN /\ lastRead' = Statement("UPDATE", table, uid, TRUE, {})
                /\ UNCHANGED <<clients, assessments, plans, exercises,
                               workoutDays>>
           ELSE IF RowPolicy(table, uid, row) /\ ReferenceHolds(table, row)
           THEN /\ WriteTable(table, (TableRows(table) \ hit) \cup {row})
                /\ lastRead' = Statement("UPDATE", table, uid, TRUE, hit)
           ELSE /\ lastRead' = Statement("UPDATE", table, uid, FALSE, {})
                /\ UNCHANGED <<clients, assessments, plans, exercises,
                               workoutDays>>
    /\ UNCHANGED uuids
    /\ UNCHANGED <<fmsScores, callVars, pc, wizardVars, settingsVars, pageVars>>

\* DELETE FROM table WHERE id = ..., run as uid
SqlDelete(uid, table, id) ==
    /\ pc = "policies"
    /\ LET hit == {r \in TableRows(table) :
                      r.id = id /\ Permitted("DELETE", table, uid, r)}
       IN  /\ WriteTable(table, TableRows(table) \ hit)
           /\ lastRead' = Statement("DELETE", table, uid, TRUE, hit)
    /\ UNCHANGED uuids
    /\ UNCHANGED <<fmsScores, callVars, pc, wizardVars, settingsVars, pageVars>>

InitPolicies ==
    /\ WizardInit /\ CallsInit /\ DbInit /\ SettingsInit({NoUser})
    /\ PagesInit({"none"})
    /\ pc = "policies"

NextPolicies ==
    \/ \E uid \in Coaches : \E table \in Tables : SqlSelect(uid, table)
    \/ \E uid, owner \in Coaches : \E table \in Tables :
           \E parent \in RowIds : SqlInsert(uid, table, owner, parent)
    \/ \E uid, owner \in Coaches : \E table \in Tables :
           \E id \in {r.id : r \in TableRows(table)} :
               \E parent \in RowIds :
                   SqlUpdate(uid, table, id, owner, parent)
    \/ \E uid \in Coaches : \E table \in Tables :
           \E id \in {r.id : r \in TableRows(table)} :
               SqlDelete(uid, table, id)

SpecPolicies == InitPolicies /\ [][NextPolicies]_vars

(***************************************************************************)
(* SettingsPage.  The specialization strings are sequences of characters.   *)
(***************************************************************************)
Chars == {" ", "a"}

\* values of e.target.value of the specialization input
TypedStrings == UNION {[1..n -> Chars] : n \in 0..MaxInputLen}

TypedNames == {"Ann"}

TypedPhilosophies == {"Strength first"}

\* String.prototype.trim
RECURSIVE trim(_)
trim(str) ==
    IF str = << >> THEN str
    ELSE IF Head(str) = " " THEN trim(Tail(str))
    ELSE IF str[Len(str)] = " " THEN trim(SubSeq(str, 1, Len(str) - 1))
    ELSE str

\* Array.prototype.includes
includes(list, item) == \E i \in 1..Len(list) : list[i] = item

\* Array.prototype.filter with (s) => s !== spec
RECURSIVE filterNot(_, _)
filterNot(list, spec) ==
    IF list = << >> THEN << >>
    ELSE IF Head(list) = spec THEN filterNot(Tail(list), spec)
    ELSE <<Head(list)>> \o filterNot(Tail(list), spec)

\* user.user_metadata?.key || fallback: the stored value (of any type)
\* when the key is present with a truthy value, the fallback when the key
\* is missing or its value is falsy (0, "", false, null)
MetadataOr(user, key, fallback) ==
    IF HasKey(user.user_metadata, key)
       /\ Truthy(SubScore(user.user_metadata, key))
    THEN LET stored == SubScore(user.user_metadata, key)
         IN  CASE stored.type = "string" -> stored.string
               [] stored.type = "array" -> stored.array
               [] stored.type = "number" -> stored.number
               [] stored.type = "boolean" -> stored.boolean
               [] stored.type = "object" -> stored.object
    ELSE fallback

\* the users getUser may return: none; one with an email and no metadata;
\* one without an email and with metadata, among it an object; one whose
\* metadata values are falsy (name 0, training_philosophy false,
\* specializations "")
AuthUsers ==
    { NoUser,
      [present |-> TRUE, email |-> "coach@example.com",
       user_metadata |-> << >>],
      [present |-> TRUE, email |-> "",
       user_metadata |->
           << <<"name", [type |-> "string", string |-> "Bo"]>>,
              <<"training_philosophy",
                [type |-> "object", object |-> << <<"first", "A">> >>]>>,
              <<"specializations",
                [type |-> "array", array |-> << <<"a">> >>]>> >>],
      [present |-> TRUE, email |-> "c@d.e",
       user_metadata |->
           << <<"name", [type |-> "number", number |-> 0]>>,
              <<"training_philosophy",
                [type |-> "boolean", boolean |-> FALSE]>>,
              <<"specializations", [type |-> "string", string |-> ""]>> >>] }

OthersUnchangedBySettings ==
    UNCHANGED <<fmsScores, callVars, pc, wizardVars, dbVars, pageVars,
                listVars>>

\* fetchProfile after await supabase.auth.getUser()
fetchProfile ==
    /\ pc = "settings"
    /\ profileFetch = "pending"
    /\ profileFetch' = "done"
    /\ profile' =
           IF authUser.present
           THEN [name |-> MetadataOr(authUser, "name", ""),
                 email |-> authUser.email,
                 training_philosophy |->
                     MetadataOr(authUser, "training_philosophy", ""),
                 specializations |->
                     MetadataOr(authUser, "specializations", << >>)]
           ELSE profile
    /\ UNCHANGED <<specializationInput, saving, saved, authUser, lastUpdate>>
    /\ OthersUnchangedBySettings

\* onChange of the name input, of the philosophy textarea and of the
\* specialization input; the email input is disabled and has no handler
TypeIntoSettings ==
    /\ pc = "settings"
    /\ \/ /\ \E v \in TypedNames : profile' = [profile EXCEPT !.name = v]
          /\ UNCHANGED specializationInput
       \/ /\ \E v \in TypedPhilosophies :
                 profile' = [profile EXCEPT !.training_philosophy = v]
          /\ UNCHANGED specializationInput
       \/ /\ \E v \in TypedStrings : specializationInput' = v
          /\ UNCHANGED profile
    /\ UNCHANGED <<saving, saved, profileFetch, authUser, lastUpdate>>
    /\ OthersUnchangedBySettings

addSpecialization ==
    /\ pc = "settings"
    /\ trim(specializationInput) # << >>
    /\ ~includes(profile.specializations, trim(specializationInput))
    /\ profile' = [profile EXCEPT !.specializations =
                       Append(@, trim(specializationInput))]
    /\ specializationInput' = << >>
    /\ UNCHANGED <<saving, saved, profileFetch, authUser, lastUpdate>>
    /\ OthersUnchangedBySettings

removeSpecialization(spec) ==
    /\ pc = "settings"
    /\ profile' = [profile EXCEPT !.specializations = filterNot(@, spec)]
    /\ UNCHANGED <<specializationInput, saving, saved, profileFetch, authUser,
                   lastUpdate>>
    /\ OthersUnchangedBySettings

ClickRemoveSpecialization ==
    \E i \in 1..Len(profile.specializations) :
        removeSpecialization(profile.specializations[i])

UpdateData_WholeProfile(p) ==
    << <<"name", p.name>>, <<"email", p.email>>,
       <<"training_philosophy", p.training_philosophy>>,
       <<"specializations", p.specializations>> >>

\* the data object handleSave passes to updateUser
UpdateData(p) ==
    << <<"name", p.name>>,
       <<"training_philosophy", p.training_philosophy>>,
       <<"specializations", p.specializations>> >>

\* onClick of Save Changes, disabled while loading: handleSave up to
\* await supabase.auth.updateUser(...)
handleSave ==
    /\ pc = "settings"
    /\ ~saving
    /\ saving' = TRUE
    /\ saved' = FALSE
    /\ lastUpdate' = [sent |-> TRUE, data |-> UpdateData(profile)]
    /\ UNCHANGED <<profile, specializationInput, profileFetch, authUser>>
    /\ OthersUnchangedBySettings

\* updateUser settled: resolved (setSaved(true) and the timer), or rejected
UpdateSettled ==
    /\ lastUpdate.sent
    /\ lastUpdate' = NoUpdate
    /\ saved' \in {TRUE, saved}
    /\ saving' = FALSE
    /\ UNCHANGED <<profile, specializationInput, profileFetch, authUser>>
    /\ OthersUnchangedBySettings

\* the callback of setTimeout(() => setSaved(false), 3000)
SavedTimeout ==
    /\ pc = "settings"
    /\ saved
    /\ saved' = FALSE
    /\ UNCHANGED <<profile, specializationInput, saving, profileFetch,
                   authUser, lastUpdate>>
    /\ OthersUnchangedBySettings

InitSettings ==
    /\ WizardInit /\ CallsInit /\ DbInit /\ SettingsInit(AuthUsers)
    /\ PagesInit({"none"})
    /\ pc = "settings"

NextSettings ==
    \/ fetchProfile
    \/ TypeIntoSettings
    \/ addSpecialization
    \/ ClickRemoveSpecialization
    \/ handleSave
    \/ UpdateSettled
    \/ SavedTimeout

SpecSettings == InitSettings /\ [][NextSettings]_vars

(***************************************************************************)
(* The free-text list editors.  NewExercisePage keeps manual_tags with      *)
(* addTag and removeTag.  The list fields of the assessment wizard          *)
(* (medical_conditions, medications, ..., past_sports, current_activities)  *)
(* are each an ArrayInput, whose handleAdd passes the trimmed text to the   *)
(* field's onAdd, which appends it; addListItem and removeListItem of the   *)
(* wizard are not called.                                                   *)
(***************************************************************************)
ListEditors == {"manual_tags", "medical_conditions"}

\* values of e.target.value of the text input of a list editor
ListInputs == UNION {[1..n -> Chars] : n \in 0..(MaxInputLen + 1)}

OthersUnchangedByLists ==
    UNCHANGED <<fmsScores, callVars, pc, wizardVars, dbVars, pageVars,
                profile, specializationInput, saving, saved, profileFetch,
                authUser, lastUpdate>>

\* onChange of the text input: setTagInput / setValue
TypeIntoList(str) ==
    /\ pc \in ListEditors
    /\ listInput' = str
    /\ UNCHANGED listItems
    /\ OthersUnchangedByLists

addTag ==
    /\ pc = "manual_tags"
    /\ Len(listItems) < MaxListLen
    /\ trim(listInput) # << >>
    /\ ~includes(listItems, trim(listInput))
    /\ listItems' = Append(listItems, trim(listInput))
    /\ listInput' = << >>
    /\ OthersUnchangedByLists

removeTag(tag) ==
    /\ pc = "manual_tags"
    /\ listItems' = filterNot(listItems, tag)
    /\ UNCHANGED listInput
    /\ OthersUnchangedByLists

\* ArrayInput.handleAdd with the onAdd of the field:
\* [...healthHistory.medical_conditions, value]
handleAdd ==
    /\ pc = "medical_conditions"
    /\ Len(listItems) < MaxListLen
    /\ trim(listInput) # << >>
    /\ listItems' = Append(listItems, trim(listInput))
    /\ listInput' = << >>
    /\ OthersUnchangedByLists

\* the onRemove of the field: filter((i) => i !== value)
onRemove(value) ==
    /\ pc = "medical_conditions"
    /\ listItems' = filterNot(listItems, value)
    /\ UNCHANGED listInput
    /\ OthersUnchangedByLists

InitLists ==
    /\ WizardInit /\ CallsInit /\ DbInit /\ SettingsInit({NoUser})
    /\ PagesInit({"none"})
    /\ pc \in ListEditors

NextLists ==
    \/ \E str \in ListInputs : TypeIntoList(str)
    \/ addTag
    \/ \E i \in 1..Len(listItems) : removeTag(listItems[i])
    \/ handleAdd
    \/ \E i \in 1..Len(listItems) : onRemove(listItems[i])

SpecLists == InitLists /\ [][NextLists]_vars

(***************************************************************************)
(* The page data loaders fetchClients, fetchPlans, fetchExercises and       *)
(* fetchClientData.  Each is try { getSession; fetch; json; set state }     *)
(* catch { log } finally { setLoading(false) }; fetchClientData makes three *)
(* fetches in a row for the client id of the render that started it.        *)
(***************************************************************************)
LoaderPages == {"clients", "plans", "exercises", "client detail"}

\* number of fetches of the loader
Fetches(page) == IF page = "client detail" THEN 3 ELSE 1

\* obj[key] of an object that has the key
Property(obj, key) == obj[CHOOSE i \in 1..Len(obj) : obj[i][1] = key][2]

\* the assessment rows a client can have: fms_scores is a nullable JSONB
\* column, and the object stored in it may lack total_score; a stored total
\* is the sum of seven sub-scores of 0..3
StoredAssessments(id) ==
    {<< <<"client_id", id>> >>}
        \cup {<< <<"client_id", id>>, <<"fms_scores", f>> >> :
                 f \in {<< >>} \cup {<< <<"total_score", t>> >> :
                                        t \in 0..(7 * 3)}}

\* FMS Score: {assessment.fms_scores?.total_score || "N/A"}/21
FmsScoreLine(assessment) ==
    LET fms == IF HasKey(assessment, "fms_scores")
               THEN Property(assessment, "fms_scores") ELSE << >>
        shown == IF HasKey(fms, "total_score")
                    /\ Property(fms, "total_score") # 0
                 THEN ToString(Property(fms, "total_score")) ELSE "N/A"
    IN  "FMS Score: " \o shown \o "/21"

\* data.<list> || []: the rows of a response body; a body may lack the
\* list.  The rows sent for a client detail page are those of the client
\* the request was for, the rows of a list page are named by their ids.
ResponseLists(call) ==
    IF mounted = "client detail" /\ call.stage = 2
    THEN {<< >>} \cup {<<row>> : row \in StoredAssessments(call.clientId)}
    ELSE IF mounted \in {"client detail", "plan detail"}
    THEN {<< >>, <<call.clientId>>}
    ELSE {<< >>, <<1>>, <<1, 2>>}

RemoveCall(i) ==
    [j \in 1..(Len(loaderCalls) - 1) |->
        IF j < i THEN loaderCalls[j] ELSE loaderCalls[j + 1]]

Finish_KeepsLoading(i, state) ==
    /\ pageState' = state
    /\ loaderCalls' = RemoveCall(i)

\* the loader returns or its catch block ran: finally { setLoading(false) }
Finish(i, state) ==
    /\ pageState' = [state EXCEPT !.loading = FALSE]
    /\ loaderCalls' = RemoveCall(i)

\* the next fetch of the call is started, or the try block is left
NextFetch(i, state) ==
    IF loaderCalls[i].stage < Fetches(mounted)
    THEN /\ pageState' = state
         /\ loaderCalls' =
                [loaderCalls EXCEPT ![i].stage = @ + 1,
                                    ![i].await = "response"]
    ELSE Finish(i, state)

\* the state setter after response.json() of the call's current fetch
SetLoaded(call, list) ==
    IF mounted # "client detail" THEN [pageState EXCEPT !.items = list]
    ELSE IF call.stage = 1 THEN [pageState EXCEPT !.client = call.clientId]
    ELSE IF call.stage = 2 THEN [pageState EXCEPT !.assessments = list]
    ELSE [pageState EXCEPT !.plans = list]

\* await supabase.auth.getSession() settles: with a session the first fetch
\* is started; without one the loader returns; rejected, it is caught
SessionSettles(i) ==
    /\ loaderCalls[i].await = "getSession"
    /\ \/ /\ loaderCalls' = [loaderCalls EXCEPT ![i].await = "response"]
          /\ UNCHANGED pageState
       \/ Finish(i, pageState)
    /\ UNCHANGED <<mounted, idChanges>>
    /\ UNCHANGED <<fmsScores, callVars, pc, wizardVars, dbVars, settingsVars,
                   sendVars>>

\* await fetch(...) settles: ok, not ok, or rejected
ResponseSettles(i) ==
    /\ loaderCalls[i].await = "response"
    /\ \/ /\ loaderCalls' = [loaderCalls EXCEPT ![i].await = "json"]
          /\ UNCHANGED pageState
       \/ NextFetch(i, pageState)
       \/ Finish(i, pageState)
    /\ UNCHANGED <<mounted, idChanges>>
    /\ UNCHANGED <<fmsScores, callVars, pc, wizardVars, dbVars, settingsVars,
                   sendVars>>

\* await response.json() settles: the state is set, or it was rejected
JsonSettles(i) ==
    /\ loaderCalls[i].await = "json"
    /\ \/ \E list \in ResponseLists(loaderCalls[i]) :
              NextFetch(i, SetLoaded(loaderCalls[i], list))
       \/ Finish(i, pageState)
    /\ UNCHANGED <<mounted, idChanges>>
    /\ UNCHANGED <<fmsScores, callVars, pc, wizardVars, dbVars, settingsVars,
                   sendVars>>

\* params.id changes: the effect with dependency [clientId] runs
\* fetchClientData again, up to its await of getSession
ChangeClientId(id) ==
    /\ mounted = "client detail"
    /\ idChanges < MaxIdChanges
    /\ id # pageState.clientId
    /\ idChanges' = idChanges + 1
    /\ pageState' = [pageState EXCEPT !.clientId = id]
    /\ loaderCalls' = Append(loaderCalls,
                             [clientId |-> id, await |-> "getSession",
                              stage |-> 1])
    /\ UNCHANGED mounted
    /\ UNCHANGED <<fmsScores, callVars, pc, wizardVars, dbVars, settingsVars,
                   sendVars>>

InitPages ==
    /\ WizardInit /\ CallsInit /\ DbInit /\ SettingsInit({NoUser})
    /\ PagesInit(LoaderPages)
    /\ pc = "pages"

LoaderSettles ==
    \E i \in 1..Len(loaderCalls) :
        SessionSettles(i) \/ ResponseSettles(i) \/ JsonSettles(i)

NextPages ==
    \/ LoaderSettles
    \/ \E id \in ClientIds : ChangeClientId(id)

SpecPages == InitPages /\ [][NextPages]_vars

\* every awaited call settles
SpecPagesFair == SpecPages /\ WF_vars(LoaderSettles)

(***************************************************************************)
(* Emailing a plan.  The Send button of a row of PlansPage runs an inline   *)
(* async onClick: getSession; fetch(send-email); alert.  "Send to Client"   *)
(* of PlanDetailPage runs handleSendEmail: setSendingEmail(true); try {     *)
(* getSession; fetch; alert by response.ok } catch { alert } finally {      *)
(* setSendingEmail(false) }.  fetchPlan of PlanDetailPage has the shape of  *)
(* the list loaders.                                                        *)
(***************************************************************************)
SendPages == {"plans", "plan detail"}

\* the call has returned or thrown; handleSendEmail's finally block resets
\* the flag
SendReturns(i) ==
    /\ sendCalls' = [j \in 1..(Len(sendCalls) - 1) |->
                        IF j < i THEN sendCalls[j] ELSE sendCalls[j + 1]]
    /\ sendingEmail' = IF mounted = "plan detail" THEN FALSE
                       ELSE sendingEmail

\* alert(...) after the fetch settled with response r: the row button
\* alerts once the awaited fetch has resolved; handleSendEmail tests
\* response.ok and catches a rejection
AlertAfterFetch(r) ==
    IF mounted = "plans"
    THEN IF r = "rejected" THEN alertShown
         ELSE [text |-> "Plan sent via email!", response |-> r]
    ELSE IF r = "ok"
         THEN [text |-> "Plan sent successfully!", response |-> r]
         ELSE [text |-> "Failed to send email", response |-> r]

\* a click on Send of a plan row, or on Send to Client (disabled while
\* sendingEmail); the handler runs up to its await of getSession
ClickSend(row) ==
    /\ mounted \in SendPages
    /\ ~pageState.loading
    /\ row \in 1..Len(pageState.items)
    /\ Len(sendCalls) < MaxSendsInFlight
    /\ IF mounted = "plan detail"
       THEN ~sendingEmail /\ sendingEmail' = TRUE
       ELSE UNCHANGED sendingEmail
    /\ sendCalls' = Append(sendCalls, [planId |-> pageState.items[row],
                                       await |-> "getSession"])
    /\ UNCHANGED <<alertShown, mounted, pageState, loaderCalls, idChanges>>
    /\ UNCHANGED <<fmsScores, callVars, pc, wizardVars, dbVars, settingsVars>>

\* await supabase.auth.getSession() settles: with a session the POST is
\* sent; without one the handler returns; a rejection is caught only by
\* handleSendEmail
SendSessionSettles(i) ==
    /\ sendCalls[i].await = "getSession"
    /\ \/ /\ sendCalls' = [sendCalls EXCEPT ![i].await = "response"]
          /\ UNCHANGED <<alertShown, sendingEmail>>
       \/ /\ SendReturns(i)
          /\ UNCHANGED alertShown
       \/ /\ SendReturns(i)
          /\ alertShown' =
                 IF mounted = "plans" THEN alertShown
                 ELSE [text |-> "Failed to send email", response |-> "none"]
    /\ UNCHANGED <<mounted, pageState, loaderCalls, idChanges>>
    /\ UNCHANGED <<fmsScores, callVars, pc, wizardVars, dbVars, settingsVars>>

\* await fetch(.../send-email, POST) settles: ok, not ok, or rejected
SendResponseSettles(i) ==
    /\ sendCalls[i].await = "response"
    /\ \E r \in {"ok", "not ok", "rejected"} :
           alertShown' = AlertAfterFetch(r)
    /\ SendReturns(i)
    /\ UNCHANGED <<mounted, pageState, loaderCalls, idChanges>>
    /\ UNCHANGED <<fmsScores, callVars, pc, wizardVars, dbVars, settingsVars>>

InitSend ==
    /\ WizardInit /\ CallsInit /\ DbInit /\ SettingsInit({NoUser})
    /\ PagesInit(SendPages)
    /\ pc = "send"

NextSend ==
    \/ LoaderSettles
    \/ \E row \in 1..Len(pageState.items) : ClickSend(row)
    \/ \E i \in 1..Len(sendCalls) : SendSessionSettles(i)
    \/ \E i \in 1..Len(sendCalls) : SendResponseSettles(i)

SpecSend == InitSend /\ [][NextSend]_vars

(***************************************************************************)
(* Claims about the assessment wizard                                       *)
(***************************************************************************)
\* C11: every assessment record the submit handler sends has
\* fms_scores.total_score equal to the sum of the seven sub-scores of that
\* same record, whatever selections and navigations came before.
C11_SentTotalIsSumOfSentScores ==
    lastPost.sent =>
        /\ HasSevenFields(lastPost.fms_scores)
        /\ HasKey(lastPost.fms_scores, "total_score")
        /\ SubScore(lastPost.fms_scores, "total_score")
               = SumOfNamedFields(lastPost.fms_scores)

\* a record was sent after a sub-score had been changed and the form was
\* changed again while the submission was pending
C11_Witness ==
    /\ lastPost.sent
    /\ SubScore(lastPost.fms_scores, "deep_squat") = 0
    /\ SubScore(fmsScores, "deep_squat") = 3

\* C12: in every state of the wizard the displayed FMS total is the sum of
\* the seven currently selected sub-scores and the displayed BMI is
\* calculateBMI of the currently entered weight and height.
C12_DisplayedValuesAreCurrent ==
    location = "assessment" =>
        /\ currentStep = FMSStep =>
               /\ view.shows = "fms"
               /\ view.total = SumOfNamedFields(fmsScores)
        /\ currentStep = BodyMetricsStep =>
               /\ view.shows = "bmi"
               /\ view.bmi = calculateBMI(bodyMetrics.weight_kg,
                                          bodyMetrics.height_cm)

\* the body step is on display after a sub-score and the height were changed
C12_Witness ==
    /\ location = "assessment"
    /\ currentStep = BodyMetricsStep
    /\ SubScore(fmsScores, "deep_squat") = 3
    /\ bodyMetrics.height_cm = 0
    /\ view.shows = "bmi"
    /\ view.bmi # calculateBMI(InitialBodyMetrics.weight_kg,
                               InitialBodyMetrics.height_cm)

\* C13: the seven sub-scores are 2 each initially and, after any sequence
\* of score button clicks, each is an integer in {0,1,2,3}, so the total
\* displayed and the total submitted lie in 0..21.
C13_SubScoresInRange ==
    /\ \A i \in 1..7 : SubScore(fmsScores, FMSKeys[i]) = 2
    /\ [](/\ OnlySevenFields(fmsScores)
          /\ AllSubScoresValid(fmsScores)
          /\ view.shows = "fms" => view.total \in 0..MaxTotal
          /\ lastPost.sent =>
                 /\ AllSubScoresValid(lastPost.fms_scores)
                 /\ SubScore(lastPost.fms_scores, "total_score")
                        \in 0..MaxTotal)

\* score buttons were clicked, a record was sent and another button was
\* clicked since
C13_Witness ==
    /\ lastPost.sent
    /\ SubScore(lastPost.fms_scores, "total_score") = 15
    /\ view.shows = "fms"
    /\ view.total = 12

\* C14: every assessment record the wizard submits has
\* body_metrics.height_cm > 0 and body_metrics.weight_kg > 0, whatever was
\* typed into or cleared from the height and weight fields.
C14_SentMeasuresPositive ==
    lastPost.sent =>
        /\ lastPost.body_metrics.height_cm > 0
        /\ lastPost.body_metrics.weight_kg > 0

\* C19: after any sequence of Previous and Next clicks the step index is
\* within 0..10 (the 11 steps): Previous is disabled at step 0, Next is not
\* offered at step 10, and Save Assessment is offered only at step 10.
C19_StepWithinBounds ==
    location = "assessment" =>
        /\ Len(STEPS) = 11
        /\ currentStep \in 0..10
        /\ currentStep = 0 => ~ENABLED PreviousStep
        /\ currentStep = 10 => (~NextOffered /\ ~ENABLED NextStep)
        /\ SaveOffered <=> currentStep = 10
        /\ ENABLED ClickSave => currentStep = 10

\* back at the first step after a score was changed at the last one
C19_Witness ==
    /\ location = "assessment"
    /\ currentStep = 0
    /\ SubScore(fmsScores, "deep_squat") = 1
    /\ ~ENABLED PreviousStep
    /\ ENABLED NextStep

\* the steps of handleSubmit that end in its catch block
SubmissionFails == SessionMissing \/ FetchRejected \/ ErrorBodyRead

\* C20: when a submission fails (no session, a response that is not ok, a
\* thrown network error) the wizard stays on the assessment page, error is
\* set to a non-empty text, and the step and the entered form are unchanged;
\* the wizard navigates to the client page only when the POST returned ok,
\* and without a session no POST is sent.
C20_FailureKeepsWizard ==
    [][ /\ SubmissionFails =>
               /\ location' = "assessment"
               /\ error' # ""
               /\ currentStep' = currentStep
               /\ fmsScores' = fmsScores
               /\ bodyMetrics' = bodyMetrics
        /\ location' # location =>
               /\ ResponseOk
               /\ lastPost.sent
               /\ location' = "client"
        /\ SessionMissing => (~lastPost.sent /\ ~lastPost'.sent)
        /\ (lastPost'.sent /\ ~lastPost.sent) => SessionFound
      ]_vars

\* C21: at most one submission is in flight: while a submission has not
\* finished, loading is true and Save Assessment is disabled, so a POST is
\* awaiting its response only within the one running handleSubmit call, and
\* a new call starts only when none is running and loading is false.
C21_OneSubmissionInFlight ==
    /\ (submit.await # "none") => loading
    /\ lastPost.sent => (loading /\ submit.await = "fetch")
    /\ ENABLED ClickSave =>
           (~loading /\ submit = NoSubmit /\ ~lastPost.sent)

\* a POST of a changed score and a cleared height awaits its response with
\* Save Assessment on display and disabled
C21_Witness ==
    /\ lastPost.sent
    /\ loading
    /\ ~ENABLED ClickSave
    /\ SaveOffered
    /\ SubScore(lastPost.fms_scores, "deep_squat") = 1
    /\ lastPost.body_metrics.height_cm = 0

(***************************************************************************)
(* Claims about the scoring functions, continued                            *)
(***************************************************************************)
\* low is the least risky band, high the riskiest
BandRank(level) ==
    IF level = "low" THEN 0 ELSE IF level = "moderate" THEN 1 ELSE 2

\* the record with one point moved from movement j to movement i: a record
\* with the same sum
PointMoved(obj, i, j) ==
    SpreadSet(SpreadSet(obj, FMSKeys[i], SubScore(obj, FMSKeys[i]) + 1),
              FMSKeys[j], SubScore(obj, FMSKeys[j]) - 1)

\* C16: the band depends only on the total: a valid seven-sub-score record
\* and any record of the same sum reached by moving one point between two
\* movements get the same band (all records of one sum are linked by such
\* moves), and no larger total gets a riskier band.
C16_BandDependsOnTotalMonotonically ==
    (pc = "classified" /\ OnlySevenFields(scores) /\ AllSubScoresValid(scores))
    =>
        /\ \A i, j \in 1..7 :
               ( /\ i # j
                 /\ SubScore(scores, FMSKeys[i]) < MaxScore
                 /\ SubScore(scores, FMSKeys[j]) > MinScore )
               => getFMSRiskLevel(
                      calculateFMSTotal(PointMoved(scores, i, j))) = risk.value
        /\ \A t \in total.value..MaxTotal :
               BandRank(getFMSRiskLevel(t).level)
                   <= BandRank(risk.value.level)

\* an uneven record of total 14 was classified
C16_Witness ==
    /\ pc = "classified"
    /\ OnlySevenFields(scores)
    /\ AllSubScoresValid(scores)
    /\ SubScore(scores, "deep_squat") = 0
    /\ SubScore(scores, "rotary_stability") = 3
    /\ total.value = 14
    /\ risk.value.level = "moderate"

(***************************************************************************)
(* Claims about stored assessments                                          *)
(***************************************************************************)
\* a step keeps every assessment row that is still there as it was, and an
\* UPDATE or DELETE statement in it reached no row
AssessmentsKept ==
    /\ \A a \in assessments :
           (\E b \in assessments' : b.id = a.id) => (a \in assessments')
    /\ (lastRead'.op \in {"update", "delete"}) => (lastRead'.rows = {})

\* C17: an assessment is immutable after creation: the assessment API
\* offers only list, get, create and generate-plan (GET and POST requests),
\* the policies on assessments are for SELECT and INSERT only, so that an
\* UPDATE or DELETE reaches no row, and no operation changes the stored
\* fields of an assessment that exists.
C17_AssessmentsImmutable ==
    /\ {op.name : op \in assessmentApi}
           = {"list", "get", "create", "generatePlan"}
    /\ \A op \in assessmentApi : op.method \in {"GET", "POST"}
    /\ [][AssessmentsKept]_vars

\* a coach's UPDATE of an assessment of a client of their own reached no row
C17_Witness ==
    /\ lastRead.op = "update"
    /\ lastRead.rows = {}
    /\ \E a \in assessments : \E c \in clients :
           /\ a.client_id = c.id
           /\ a.payload = "first visit"

(***************************************************************************)
(* Claims about the settings page                                           *)
(***************************************************************************)
\* C18: on the settings page the email cannot be changed: the profile's
\* email is the one loaded from the authenticated user (empty before the
\* load and when there is none) after any edits and saves, and the update
\* handleSave sends has the keys name, training_philosophy and
\* specializations only.
C18_EmailNotChanged ==
    /\ profile.email =
           IF profileFetch = "done" /\ authUser.present
           THEN authUser.email
           ELSE ""
    /\ lastUpdate.sent =>
           /\ ~HasKey(lastUpdate.data, "email")
           /\ {lastUpdate.data[i][1] : i \in 1..Len(lastUpdate.data)}
                  = {"name", "training_philosophy", "specializations"}

\* an update is on its way after the profile was loaded and edited
C18_Witness ==
    /\ lastUpdate.sent
    /\ profileFetch = "done"
    /\ profile.email = "coach@example.com"
    /\ profile.name = "Ann"
    /\ profile.specializations # << >>

(***************************************************************************)
(* Claims about the page data loaders                                       *)
(***************************************************************************)
\* C22: every page data loader sets loading to false on every path once its
\* awaited calls settle (no session, a response that is not ok, a thrown
\* error): a loader that has finished has left loading false, and the page
\* eventually leaves its loading state for good.
C22_LoadingEnds ==
    /\ [](Len(loaderCalls) < 1 + idChanges => ~pageState.loading)
    /\ <>[](~pageState.loading)

\* the loader of a list page has finished without having loaded anything
C22_Witness ==
    /\ mounted = "exercises"
    /\ loaderCalls = << >>
    /\ pageState.items = << >>
    /\ ~pageState.loading

\* what ClientDetailPage displays belongs to the client id of its route
\* (or is still empty)
DisplayedIsCurrent(state) ==
    /\ state.client \in {0, state.clientId}
    /\ \A i \in 1..Len(state.assessments) :
           Property(state.assessments[i], "client_id") = state.clientId
    /\ \A i \in 1..Len(state.plans) : state.plans[i] = state.clientId

\* C27: when the client id changes while an earlier load is in flight, then
\* once all requests have completed the displayed client, assessments and
\* plans are those of the current client id, and no step replaces data of
\* the current client id by data of another one.
C27_LateResponseIgnored ==
    /\ [](( /\ mounted = "client detail"
            /\ loaderCalls = << >> ) => DisplayedIsCurrent(pageState))
    /\ [][( /\ mounted = "client detail"
            /\ pageState'.clientId = pageState.clientId
            /\ DisplayedIsCurrent(pageState) )
          => DisplayedIsCurrent(pageState')]_vars

\* C23: a success confirmation for emailing a plan is shown only after the
\* send-email request completed with an ok response, on the plans list and
\* on the plan detail page alike.
C23_SuccessOnlyAfterOk ==
    alertShown.text \in {"Plan sent via email!", "Plan sent successfully!"}
        => alertShown.response = "ok"

\* the stored total of an assessment row: a set with at most one number
StoredTotal(assessment) ==
    IF ~HasKey(assessment, "fms_scores") THEN {}
    ELSE IF ~HasKey(Property(assessment, "fms_scores"), "total_score") THEN {}
    ELSE {Property(Property(assessment, "fms_scores"), "total_score")}

\* C24: for every stored assessment whose total_score is an integer in
\* 0..21, 0 included, the client detail page displays that number as the
\* FMS score; N/A is displayed only when no total is stored.
C24_StoredTotalDisplayed ==
    \A i \in 1..Len(pageState.assessments) :
        LET row == pageState.assessments[i]
        IN  /\ \A t \in StoredTotal(row) :
                   FmsScoreLine(row) = "FMS Score: " \o ToString(t) \o "/21"
            /\ FmsScoreLine(row) = "FMS Score: N/A/21"
                   => StoredTotal(row) = {}

(***************************************************************************)
(* Claims about the row-level policies                                      *)
(***************************************************************************)
\* the rows a coach owns: the rows with their coach_id, the assessments of
\* their clients and the workout days of their plans
OwnedRows(uid) ==
    {<<"exercises", r>> : r \in {e \in exercises : e.coach_id = uid}}
        \cup {<<"clients", r>> : r \in {c \in clients : c.coach_id = uid}}
        \cup {<<"workout_plans", r>> : r \in {q \in plans : q.coach_id = uid}}
        \cup {<<"assessments", r>> :
                 r \in {a \in assessments :
                           \E c \in clients :
                               c.id = a.client_id /\ c.coach_id = uid}}
        \cup {<<"workout_days", r>> :
                 r \in {d \in workoutDays :
                           \E q \in plans :
                               q.id = d.plan_id /\ q.coach_id = uid}}

\* the rows a statement returned, changed, removed or inserted are rows of
\* the coach who ran it
TouchesOwnRowsOnly ==
    \A uid \in Coaches :
        lastRead'.uid = uid
            => lastRead'.rows \subseteq (OwnedRows(uid) \cup OwnedRows(uid)')

\* the rows of the other coaches are the same after the statement
OthersRowsKept ==
    \A uid, other \in Coaches :
        (lastRead'.uid = uid /\ other # uid)
            => OwnedRows(other)' = OwnedRows(other)

\* C25: a coach acting with their own identity can read, insert, update
\* or delete a row of exercises, clients or workout_plans only when its
\* coach_id is that coach, and an assessment or workout day only when its
\* parent client or plan belongs to that coach; no statement of a coach
\* reads, changes or removes a row owned by another coach.
C25_CoachesIsolated == [][TouchesOwnRowsOnly /\ OthersRowsKept]_vars

(***************************************************************************)
(* Claims about the free-text lists                                         *)
(***************************************************************************)
\* pairwise distinct, trimmed, non-empty strings
DistinctTrimmed(list) ==
    \A i \in 1..Len(list) :
        /\ list[i] # << >>
        /\ trim(list[i]) = list[i]
        /\ \A j \in 1..Len(list) : list[j] = list[i] => j = i

\* a step that shortens the list leaves no occurrence of some entry
RemovesAllOccurrences ==
    Len(listItems') < Len(listItems)
        => \E i \in 1..Len(listItems) :
               /\ listItems' = filterNot(listItems, listItems[i])
               /\ ~includes(listItems', listItems[i])

\* C26: after any sequence of add and remove actions the exercise tag
\* list, the settings specialization list and the list fields of the
\* assessment wizard hold pairwise distinct, trimmed, non-empty strings,
\* and removing a value leaves no occurrence of it in the list.
C26_ListsDistinctTrimmed ==
    /\ [](DistinctTrimmed(listItems))
    /\ [](DistinctTrimmed(profile.specializations))
    /\ [][RemovesAllOccurrences]_vars

====
